---------------------------- MODULE Spec2Model ----------------------------
(***************************************************************************)
(* Model of sgkit/stats/association.py: the batched OLS routine            *)
(* linear_regression and its dataset adapter gwas_linear_regression.       *)
(*                                                                         *)
(* Arrays are n-dimensional: a shape (a tuple of lengths) and a function   *)
(* from index tuples to values.  Values are exact rationals extended with  *)
(* the IEEE specials +inf, -inf and NaN, so that a division by zero        *)
(* propagates as the floating point code propagates it.                    *)
(***************************************************************************)
EXTENDS Integers, Sequences, FiniteSets, TLC

(***************************************************************************)
(* Extended rationals <<n, d>>: d > 0 a reduced fraction, <<1,0>> = +inf,  *)
(* <<-1,0>> = -inf, <<0,0>> = NaN.                                         *)
(***************************************************************************)
Abs(i) == IF i < 0 THEN -i ELSE i

Sgn(i) == IF i < 0 THEN -1 ELSE IF i > 0 THEN 1 ELSE 0

RECURSIVE GCD(_, _)
GCD(a, b) == IF b = 0 THEN a ELSE GCD(b, a % b)

Norm(n, d) ==
    IF d = 0 THEN <<Sgn(n), 0>>
    ELSE LET g == GCD(Abs(n), Abs(d))
         IN  <<(Sgn(d) * n) \div g, Abs(d) \div g>>

NaN == <<0, 0>>
PInf == <<1, 0>>
Zero == <<0, 1>>
One == <<1, 1>>
Int2V(i) == <<i, 1>>

IsNaN(v) == v = NaN
IsFinite(v) == v[2] # 0
IsZero(v) == v = Zero

Neg(a) == <<-a[1], a[2]>>

Add(a, b) ==
    IF a[2] = 0 /\ b[2] = 0
    THEN (IF a = b THEN a ELSE NaN)
    ELSE IF a[2] = 0 THEN a
    ELSE IF b[2] = 0 THEN b
    ELSE LET g == GCD(a[2], b[2])
         IN  Norm(a[1] * (b[2] \div g) + b[1] * (a[2] \div g), (a[2] \div g) * b[2])

Sub(a, b) == Add(a, Neg(b))

\* the factors are reduced crosswise first, which keeps the products small
Mul(a, b) ==
    IF a[2] = 0 \/ b[2] = 0 THEN Norm(a[1] * b[1], 0)
    ELSE LET g == GCD(Abs(a[1]), b[2])
             h == GCD(Abs(b[1]), a[2])
         IN  Norm((a[1] \div g) * (b[1] \div h), (a[2] \div h) * (b[2] \div g))

\* 1/0 = +inf (the zeros of this computation are sums of squares, +0.0)
Inv(a) ==
    IF a[2] = 0 THEN (IF a = NaN THEN NaN ELSE Zero)
    ELSE IF a[1] = 0 THEN PInf
    ELSE Norm(a[2], a[1])

Div(a, b) == Mul(a, Inv(b))

(***************************************************************************)
(* n-dimensional arrays.                                                   *)
(***************************************************************************)
RECURSIVE Idx(_)
Idx(shape) ==
    IF shape = <<>> THEN {<<>>}
    ELSE {<<i>> \o t : i \in 1..Head(shape), t \in Idx(Tail(shape))}

\* f with every value computed (f @@ <<>> is f itself, as an explicit function)
Explicit(f) == f @@ <<>>

Arr(shape, f(_)) == [shape |-> shape, data |-> Explicit([i \in Idx(shape) |-> f(i)])]

ndim(A) == Len(A.shape)

Max(a, b) == IF a >= b THEN a ELSE b

\* numpy broadcasting: shapes are aligned on the right, a length 1 stretches
PadShape(s, k) == [j \in 1..k |-> IF j <= k - Len(s) THEN 1 ELSE s[j - (k - Len(s))]]

Broadcastable(s1, s2) ==
    LET k == Max(Len(s1), Len(s2))
        p1 == PadShape(s1, k)
        p2 == PadShape(s2, k)
    IN  \A j \in 1..k : p1[j] = p2[j] \/ p1[j] = 1 \/ p2[j] = 1

BroadcastShape(s1, s2) ==
    LET k == Max(Len(s1), Len(s2))
        p1 == PadShape(s1, k)
        p2 == PadShape(s2, k)
    IN  [j \in 1..k |-> IF p1[j] = 1 THEN p2[j] ELSE p1[j]]

\* the index of A that the broadcast index i (of rank k) reads
BIndex(A, i) ==
    LET k == Len(i)
        r == ndim(A)
    IN  [j \in 1..r |-> IF A.shape[j] = 1 THEN 1 ELSE i[j + (k - r)]]

Elementwise(op(_, _), A, B) ==
    Arr(BroadcastShape(A.shape, B.shape),
        LAMBDA i : op(A.data[BIndex(A, i)], B.data[BIndex(B, i)]))

Map(op(_), A) == Arr(A.shape, LAMBDA i : op(A.data[i]))

\* A.T of a 2-d array
Transpose(A) == Arr(<<A.shape[2], A.shape[1]>>, LAMBDA i : A.data[<<i[2], i[1]>>])

RECURSIVE SumTo(_, _)
SumTo(f, k) == IF k = 0 THEN Zero ELSE Add(SumTo(f, k - 1), f[k])

\* A @ B of 2-d arrays
MatMul(A, B) ==
    Arr(<<A.shape[1], B.shape[2]>>,
        LAMBDA i : SumTo([k \in 1..A.shape[2] |->
                             Mul(A.data[<<i[1], k>>], B.data[<<k, i[2]>>])],
                         A.shape[2]))

\* A.sum(axis=0): the first axis is summed away
SumAxis0(A) ==
    Arr(Tail(A.shape),
        LAMBDA i : SumTo([k \in 1..A.shape[1] |-> A.data[<<k>> \o i]], A.shape[1]))

\* A.sum(axis=0, keepdims=True)
SumAxis0Keep(A) ==
    Arr(<<1>> \o Tail(A.shape),
        LAMBDA i : SumTo([k \in 1..A.shape[1] |-> A.data[<<k>> \o Tail(i)]],
                         A.shape[1]))

\* A[:, np.newaxis, :] style reshapes: a length-1 axis inserted at position p
NewAxis(A, p) ==
    Arr(SubSeq(A.shape, 1, p - 1) \o <<1>> \o SubSeq(A.shape, p, Len(A.shape)),
        LAMBDA i : A.data[SubSeq(i, 1, p - 1) \o SubSeq(i, p + 1, Len(i))])

\* the columns cols (a sequence of column numbers) of a 2-d array
Columns(A, cols) ==
    Arr(<<A.shape[1], Len(cols)>>, LAMBDA i : A.data[<<i[1], cols[i[2]]>>])


(***************************************************************************)
(* da.linalg.lstsq(XC, b)[0]: the least-squares solution x of XC @ x = b,  *)
(* shape (P, K), through a QR factorisation of XC and a triangular solve.  *)
(* Here XC = Q R with the columns of Q orthogonal (not normalised, so no   *)
(* square root is taken) and R unit upper triangular; x solves             *)
(* R x = diag(q.q)^-1 Q^T b by back substitution, column by column.        *)
(***************************************************************************)
Column(A, j) == Explicit([m \in 1..A.shape[1] |-> A.data[<<m, j>>]])

Dot(u, v) == SumTo([m \in DOMAIN u |-> Mul(u[m], v[m])], Len(u))

RECURSIVE QCols(_, _)
QCols(XC_, j) ==
    IF j = 0 THEN <<>>
    ELSE LET prevq == QCols(XC_, j - 1)
             c == Column(XC_, j)
             r == Explicit([i \in 1..(j - 1) |->
                               Div(Dot(prevq[i], c), Dot(prevq[i], prevq[i]))])
         IN  Append(prevq,
                    Explicit([m \in DOMAIN c |->
                        Sub(c[m], SumTo([i \in 1..(j - 1) |-> Mul(r[i], prevq[i][m])],
                                        j - 1))]))

RECURSIVE BackSub(_, _, _, _)
BackSub(R, z, i, x) ==
    IF i = 0 THEN x
    ELSE LET n == Len(z)
             xi == Sub(z[i], SumTo([t \in 1..(n - i) |-> Mul(R[i][i + t], x[i + t])],
                                   n - i))
         IN  BackSub(R, z, i - 1, [x EXCEPT ![i] = xi])

lstsq(XC_, b) ==
    LET p == XC_.shape[2]
        Q == QCols(XC_, p)
        R == Explicit([i \in 1..p |-> Explicit([j \in 1..p |->
                 Div(Dot(Q[i], Column(XC_, j)), Dot(Q[i], Q[i]))])])
        x == Explicit([k \in 1..b.shape[2] |->
                 BackSub(R,
                         Explicit([i \in 1..p |->
                             Div(Dot(Q[i], Column(b, k)), Dot(Q[i], Q[i]))]),
                         p,
                         Explicit([i \in 1..p |-> Zero]))])
    IN  Arr(<<p, b.shape[2]>>, LAMBDA i : x[i[2]][i[1]])

(***************************************************************************)
(* The square root and Student's t survival function are not rational.     *)
(* sqrt(v) is kept as the term [sqrt |-> v]; b / sqrt(v) is the signed     *)
(* root <<sign, b^2 / v>> (NaN: <<0, NaN>>); 2 * t.sf(|t|, dof) is the     *)
(* term over |t|^2 and dof, injective because sf is strictly decreasing.   *)
(***************************************************************************)
Sq(v) == Mul(v, v)

Sqrt(v) == [sqrt |-> IF v[1] < 0 THEN NaN ELSE v]

tNaN == <<0, NaN>>

DivSqrt(b, s) ==
    LET q == Div(Sq(b), s.sqrt)
    IN  IF IsNaN(q) THEN tNaN ELSE <<Sgn(b[1]), q>>

tIsNaN(t) == t = tNaN
tIsFinite(t) == IsFinite(t[2])

tAbs(t) == <<Abs(t[1]), t[2]>>

pNaN == [kind |-> "nan"]

t_sf2(t, dof_) ==
    IF tIsNaN(t) THEN pNaN ELSE [kind |-> "2*t.sf", abs_t_sq |-> t[2], dof |-> dof_]

(***************************************************************************)
(* Outcomes of a call, and the exceptions the code can raise.              *)
(***************************************************************************)
None == [kind |-> "None"]

Raise(err, info) == [kind |-> "raise", error |-> err, info |-> info]

Return(v) == [kind |-> "return", value |-> v]

IsRaise(x) == "kind" \in DOMAIN x /\ x.kind = "raise"

ErrTwoDimensional == "ValueError: All arguments must be two dimensional"
ErrDof == "ValueError: Number of observations (N) too small to calculate sampling statistics"
ErrNoCovariates == "ValueError: At least one covariate must be provided when add_intercept=False"
ErrStackEmpty == "ValueError: Need array(s) to stack"
ErrDimensions == "ValueError: dimensions ('variants',) must have the same length as the number of data dimensions"
ErrAssertion == "AssertionError"
ErrIndex == "IndexError: tuple index out of range"

(***************************************************************************)
(* linear_regression, line by line.                                        *)
(***************************************************************************)
\* a rank check that is content with one 2-d argument
none_two_dimensional(XL_, XC_, Y_) == 2 \notin {ndim(XL_), ndim(XC_), ndim(Y_)}

\* line 48: set([x.ndim for x in [XL, XC, Y]]) != {2}
not_all_two_dimensional(XL_, XC_, Y_) == {ndim(XL_), ndim(XC_), ndim(Y_)} # {2}

\* line 56
dof_of(n_obs, n_core_covar) == n_obs - n_core_covar - 1

\* a check that lets zero degrees of freedom through
dof_negative(dof_) == dof_ < 0

\* line 57
dof_too_small(dof_) == dof_ < 1

\* the core covariates left in
unprojected(XC_, A) == A

\* lines 69 and 71: A - XC @ da.linalg.lstsq(XC, A)[0]
project(XC_, A) == Elementwise(Sub, A, MatMul(XC_, lstsq(XC_, A)))

\* the sums of squares left as a row
XLPS_untransposed(XLP_) == SumAxis0Keep(Map(Sq, XLP_))

\* line 79: (XLP ** 2).sum(axis=0, keepdims=True).T
XLPS_of(XLP_) == Transpose(SumAxis0Keep(Map(Sq, XLP_)))

\* a division that is skipped, leaving zero, where XLPS is zero
B_guarded(XLP_, YP_, XLPS_) ==
    Elementwise(LAMBDA a, b : IF IsZero(b) THEN Zero ELSE Div(a, b),
                MatMul(Transpose(XLP_), YP_), XLPS_)

\* line 81: (XLP.T @ YP) / XLPS
B_of(XLP_, YP_, XLPS_) == Elementwise(Div, MatMul(Transpose(XLP_), YP_), XLPS_)

\* line 85: YP[:, np.newaxis, :] - XLP[..., np.newaxis] * B[np.newaxis, ...]
YR_of(YP_, XLP_, B_) ==
    Elementwise(Sub, NewAxis(YP_, 2),
                Elementwise(Mul, NewAxis(XLP_, 3), NewAxis(B_, 1)))

\* line 87: (YR ** 2).sum(axis=0)
RSS_of(YR_) == SumAxis0(Map(Sq, YR_))

\* a degree of freedom taken away for every loop covariate beyond the first
T_joint_dof(B_, RSS_, dof_, XLPS_) ==
    Elementwise(DivSqrt, B_,
                Map(Sqrt, Elementwise(Div,
                                      Elementwise(Div, RSS_,
                                                  Arr(<<>>, LAMBDA i : Int2V(dof_ - (B_.shape[1] - 1)))),
                                      XLPS_)))

\* line 90: B / np.sqrt(RSS / dof / XLPS)
T_of(B_, RSS_, dof_, XLPS_) ==
    Elementwise(DivSqrt, B_,
                Map(Sqrt, Elementwise(Div,
                                      Elementwise(Div, RSS_, Arr(<<>>, LAMBDA i : Int2V(dof_))),
                                      XLPS_)))

\* line 95: 2 * stats.distributions.t.sf(np.abs(T), dof)
P_of(T_, dof_) == Map(LAMBDA t : t_sf2(tAbs(t), dof_), T_)

(***************************************************************************)
(* The dataset adapters.                                                   *)
(***************************************************************************)
\* ds["call/genotype"].sum(dim="ploidy"): the last axis of a 3-d array summed
SumLastAxis(A) ==
    Arr(SubSeq(A.shape, 1, 2),
        LAMBDA i : SumTo([k \in 1..A.shape[3] |-> A.data[i \o <<k>>]], A.shape[3]))

\* lines 101-108
get_loop_covariates(ds_, dosage) ==
    IF dosage = "None" THEN SumLastAxis(ds_["call/genotype"]) ELSE ds_[dosage]

\* da.stack of 1-d arrays of one length: shape (k, M); no array is an error
stack(seq) ==
    IF seq = <<>> THEN Raise(ErrStackEmpty, None)
    ELSE Arr(<<Len(seq), seq[1].shape[1]>>, LAMBDA i : seq[i[1]].data[<<i[2]>>])

\* da.ones((rows, 1))
ones(rows) == Arr(<<rows, 1>>, LAMBDA i : One)

\* da.concatenate([A, B], axis=1) of 2-d arrays with the same number of rows
concatenate1(A, B) ==
    Arr(<<A.shape[1], A.shape[2] + B.shape[2]>>,
        LAMBDA i : IF i[2] <= A.shape[2] THEN A.data[i]
                   ELSE B.data[<<i[1], i[2] - A.shape[2]>>])

\* line 114
no_covariates(covariates, add_intercept) == ~add_intercept /\ covariates = <<>>

\* lines 111-125; rechunk changes neither shape nor values
get_core_covariates(ds_, covariates, add_intercept) ==
    IF no_covariates(covariates, add_intercept) THEN Raise(ErrNoCovariates, None)
    ELSE LET S == stack([c \in DOMAIN covariates |-> ds_[covariates[c]]])
         IN  IF IsRaise(S) THEN S
             ELSE LET X == Transpose(S)
                  IN  IF add_intercept THEN concatenate1(ones(X.shape[1]), X) ELSE X

\* xr.Dataset({name: (dims, data)}): a variable needs one dimension name per axis
Variable(dims, data) ==
    IF Len(dims) # ndim(data) THEN Raise(ErrDimensions, None)
    ELSE [dims |-> dims, data |-> data]

\* lines 191-197
result_dataset(res) ==
    LET vs == [n \in {"variant/beta", "variant/t_value", "variant/p_value"} |->
                  Variable(<<"variants">>,
                           CASE n = "variant/beta" -> res.beta
                             [] n = "variant/t_value" -> res.t_value
                             [] n = "variant/p_value" -> res.p_value)]
    IN  IF \E n \in DOMAIN vs : IsRaise(vs[n])
        THEN Raise(ErrDimensions, None)
        ELSE Return(vs)

(***************************************************************************)
(* State: the dataset the caller holds, the call in progress with the      *)
(* local variables of gwas_linear_regression (gw) and linear_regression    *)
(* (lr), what the call ended with, the library calls made so far (trace),  *)
(* and the previous completed call of the same caller (prev).              *)
(***************************************************************************)
VARIABLES ds, args, pc, gw, lr, outcome, trace, prev

vars == <<ds, args, pc, gw, lr, outcome, trace, prev>>

(***************************************************************************)
(* Bounds and the inputs drawn within them.                                *)
(***************************************************************************)
MaxObs == 4
MaxLoop == 2
MaxOutcome == 2
MaxCovariates == 2
MaxVal == 2

CovariateNames == {"ones", "age"}

\* a dataset over M samples: dosage G (N, M), trait y (M, O)
MkDataset(M, G, y) ==
    [n \in {"dosage", "call/genotype", "trait", "trait_1d", "ones", "age"} |->
        CASE n = "dosage" -> G
          [] n = "call/genotype" ->
                 Arr(<<G.shape[1], M, 2>>,
                     LAMBDA i : IF G.data[<<i[1], i[2]>>][1] >= i[3] THEN One ELSE Zero)
          [] n = "trait" -> y
          [] n = "trait_1d" -> Arr(<<M>>, LAMBDA i : y.data[<<i[1], 1>>])
          [] n = "ones" -> Arr(<<M>>, LAMBDA i : One)
          [] n = "age" -> Arr(<<M>>, LAMBDA i : Int2V(i[1]))]

\* one dataset per shape
ShapeDatasets ==
    {MkDataset(M,
               Arr(<<N, M>>, LAMBDA i : Int2V((i[1] * i[2]) % (MaxVal + 1))),
               Arr(<<M, O>>, LAMBDA i : Int2V((i[1] * i[1] + i[2]) % (MaxVal + 2)))) :
        M \in 1..MaxObs, N \in 1..MaxLoop, O \in 1..MaxOutcome}

\* datasets for the arithmetic: MaxLoop variants whose dosages are members k,
\* k + 1, ... of a family of columns (constant columns, ramps modulo
\* MaxVal + 1, and the sample number itself, collinear with "age"), and a
\* trait whose columns are polynomials c*m*m + d*m of the sample number m,
\* shifted per outcome, modulo MaxVal + 2
LoopFamilySize == 2 * (MaxVal + 1) + 1

LoopPattern(k, m) ==
    IF k = LoopFamilySize THEN m
    ELSE (((k - 1) \div 2) * m + ((k - 1) % 2)) % (MaxVal + 1)

TraitPattern(c, d, o, m) == (c * m * m + d * m + (o - 1) * (m \div 2)) % (MaxVal + 2)

NumericDatasets ==
    {MkDataset(M,
               Arr(<<MaxLoop, M>>,
                   LAMBDA i : Int2V(LoopPattern(((k + i[1] - 2) % LoopFamilySize) + 1,
                                                i[2]))),
               Arr(<<M, O>>, LAMBDA i : Int2V(TraitPattern(c, d, i[2], i[1])))) :
        M \in 3..MaxObs, O \in 1..MaxOutcome, k \in 1..LoopFamilySize,
        c \in 0..1, d \in 0..1}

RECURSIVE SeqsUpTo(_, _)
SeqsUpTo(S, k) ==
    IF k = 0 THEN {<<>>}
    ELSE LET shorter == SeqsUpTo(S, k - 1)
         IN  shorter \cup {Append(q, x) : q \in shorter, x \in S}

Range(q) == {q[i] : i \in DOMAIN q}

NoDup(q) == Cardinality(Range(q)) = Len(q)

\* covariate lists: distinct names (a repeated column makes XC rank deficient)
CovariateLists == {q \in SeqsUpTo(CovariateNames, MaxCovariates) : NoDup(q)}

Init ==
    /\ ds \in ShapeDatasets
    /\ args = None
    /\ pc = "idle"
    /\ gw = None
    /\ lr = None
    /\ outcome = None
    /\ trace = <<>>
    /\ prev = None

InitNum ==
    /\ ds \in NumericDatasets
    /\ args = None
    /\ pc = "idle"
    /\ gw = None
    /\ lr = None
    /\ outcome = None
    /\ trace = <<>>
    /\ prev = None

(***************************************************************************)
(* Calls and returns.                                                      *)
(***************************************************************************)
CanCall(fn) == pc = "idle" \/ (pc = "done" /\ prev = None /\ args.fn = fn)

Completed == [args |-> args, outcome |-> outcome, gw |-> gw, lr |-> lr, trace |-> trace]

PrevAtCall == IF pc = "done" THEN Completed ELSE prev

\* an exception leaves every frame: the call ends with it
Raised(err, info) ==
    /\ outcome' = Raise(err, info)
    /\ pc' = "done"

\* line 190 / a direct call: linear_regression(XL, XC, Y); line 47 coerces
\* XL and XC with da.asarray, which keeps shape and values
EnterLinearRegression(XL_, XC_, Y_) ==
    /\ lr' = [XL |-> XL_, XC |-> XC_, Y |-> Y_]
    /\ pc' = "lr_rank"

\* XC is of full column rank (section 4.1): the intercept is not given twice
FullRank(covariates, add_intercept) == ~(add_intercept /\ "ones" \in Range(covariates))

\* a second call is on the same variables, with the intercept given the other way
CallGwas(covariates, dosage, trait, add_intercept) ==
    /\ CanCall("gwas_linear_regression")
    /\ FullRank(covariates, add_intercept)
    /\ pc = "done" => /\ dosage = args.dosage
                      /\ trait = args.trait
                      /\ add_intercept # args.add_intercept
    /\ prev' = PrevAtCall
    /\ args' = [fn |-> "gwas_linear_regression", covariates |-> covariates,
                dosage |-> dosage, trait |-> trait, add_intercept |-> add_intercept]
    /\ gw' = None
    /\ lr' = None
    /\ outcome' = None
    /\ trace' = <<>>
    /\ pc' = "gwas_loop"
    /\ UNCHANGED ds

\* line 187
GwasLoopCovariates ==
    /\ pc = "gwas_loop"
    /\ gw' = [G |-> get_loop_covariates(ds, args.dosage)]
    /\ pc' = "gwas_core"
    /\ UNCHANGED <<ds, args, lr, outcome, trace, prev>>

\* line 188
GwasCoreCovariates ==
    /\ pc = "gwas_core"
    /\ LET Z == get_core_covariates(ds, args.covariates, args.add_intercept)
       IN  IF IsRaise(Z)
           THEN /\ Raised(Z.error, Z.info)
                /\ UNCHANGED gw
           ELSE /\ gw' = [G |-> gw.G, Z |-> Z]
                /\ pc' = "gwas_regress"
                /\ UNCHANGED outcome
    /\ UNCHANGED <<ds, args, lr, trace, prev>>

\* lines 189-190
GwasRegress ==
    /\ pc = "gwas_regress"
    /\ gw' = [G |-> gw.G, Z |-> gw.Z, y |-> ds[args.trait]]
    /\ EnterLinearRegression(Transpose(gw.G), gw.Z, ds[args.trait])
    /\ UNCHANGED <<ds, args, outcome, trace, prev>>

\* lines 191-197
GwasDataset ==
    /\ pc = "gwas_dataset"
    /\ outcome' = result_dataset(gw.res)
    /\ pc' = "done"
    /\ UNCHANGED <<ds, args, gw, lr, trace, prev>>

(***************************************************************************)
(* A direct call of linear_regression on arrays taken from the dataset:    *)
(* XL the chosen columns of the transposed dosage (or an array of another  *)
(* rank), XC the core matrix of a covariate list (or a 1-d covariate), Y   *)
(* the trait.  After a call that returned, a second call keeps XC and Y and *)
(* regresses some of the columns of the first alone.                       *)
(***************************************************************************)
RECURSIVE IncreasingSeqs(_)
IncreasingSeqs(n) ==
    IF n = 0 THEN {<<>>}
    ELSE LET shorter == IncreasingSeqs(n - 1)
         IN  shorter \cup {Append(q, n) : q \in shorter}

ColumnChoices(n) == IncreasingSeqs(n) \ {<<>>}

XLChoices ==
    [kind : {"columns"}, cols : ColumnChoices(ds["dosage"].shape[1])]
        \cup [kind : {"1d", "3d"}, cols : {<<>>}]

XCChoices ==
    [kind : {"columns"}, covariates : CovariateLists \ {<<>>}]
        \cup [kind : {"1d"}, covariates : {<<"ones">>}]

YChoices == {"trait", "trait_1d"}

XLArg(c) ==
    CASE c.kind = "columns" -> Columns(Transpose(ds["dosage"]), c.cols)
      [] c.kind = "1d" -> ds["age"]
      [] c.kind = "3d" -> ds["call/genotype"]

XCArg(c) ==
    CASE c.kind = "columns" -> get_core_covariates(ds, c.covariates, FALSE)
      [] c.kind = "1d" -> ds[c.covariates[1]]

CallLinearRegression(xl, xc, y) ==
    /\ CanCall("linear_regression")
    /\ pc = "done" => /\ outcome.kind = "return"
                      /\ xc = args.XC
                      /\ y = args.Y
                      /\ xl.kind = "columns"
                      /\ Range(xl.cols) \subseteq Range(args.XL.cols)
                      /\ xl # args.XL
    /\ prev' = PrevAtCall
    /\ args' = [fn |-> "linear_regression", XL |-> xl, XC |-> xc, Y |-> y]
    /\ gw' = None
    /\ outcome' = None
    /\ trace' = <<>>
    /\ EnterLinearRegression(XLArg(xl), XCArg(xc), ds[y])
    /\ UNCHANGED ds

\* lines 48-49
CheckRank ==
    /\ pc = "lr_rank"
    /\ IF not_all_two_dimensional(lr.XL, lr.XC, lr.Y)
       THEN Raised(ErrTwoDimensional, None)
       ELSE /\ pc' = "lr_dof"
            /\ UNCHANGED outcome
    /\ UNCHANGED <<ds, args, gw, lr, trace, prev>>

\* lines 50-62; reading shape[1] of an array of rank below two is an IndexError
CheckDof ==
    /\ pc = "lr_dof"
    /\ IF ndim(lr.XC) < 2 \/ ndim(lr.XL) < 2 \/ ndim(lr.Y) < 2
       THEN /\ Raised(ErrIndex, None)
            /\ UNCHANGED lr
       ELSE LET n_core_covar == lr.XC.shape[2]
                n_loop_covar == lr.XL.shape[2]
                n_obs == lr.Y.shape[1]
                n_outcome == lr.Y.shape[2]
                dof == dof_of(n_obs, n_core_covar)
            IN  IF dof_too_small(dof)
                THEN /\ Raised(ErrDof, [N |-> n_obs, C |-> n_core_covar])
                     /\ UNCHANGED lr
                ELSE /\ lr' = lr @@ [n_core_covar |-> n_core_covar,
                                     n_loop_covar |-> n_loop_covar,
                                     n_obs |-> n_obs,
                                     n_outcome |-> n_outcome,
                                     dof |-> dof]
                     /\ pc' = "lr_project_XL"
                     /\ UNCHANGED outcome
    /\ UNCHANGED <<ds, args, gw, trace, prev>>

\* a step of lines 69-96: the locals it binds, then its shape assertions
Step(at, next, call, locals, asserted) ==
    /\ pc = at
    /\ trace' = trace \o call
    /\ IF asserted
       THEN /\ lr' = lr @@ locals
            /\ pc' = next
            /\ UNCHANGED outcome
       ELSE /\ Raised(ErrAssertion, None)
            /\ UNCHANGED lr
    /\ UNCHANGED <<ds, args, gw, prev>>

\* one solve for each column of the right-hand side
lstsq_calls_per_column(name, A) == [n \in 1..A.shape[2] |-> name]

\* lines 69 and 71: one da.linalg.lstsq call takes the whole matrix A
lstsq_calls(name, A) == <<name>>

\* lines 69-70
ProjectXL ==
    LET XLP == project(lr.XC, lr.XL)
    IN  Step("lr_project_XL", "lr_project_Y", lstsq_calls("lstsq(XC, XL)", lr.XL),
             [XLP |-> XLP],
             XLP.shape = <<lr.n_obs, lr.n_loop_covar>>)

\* lines 71-72
ProjectY ==
    LET YP == project(lr.XC, lr.Y)
    IN  Step("lr_project_Y", "lr_estimate", lstsq_calls("lstsq(XC, Y)", lr.Y),
             [YP |-> YP],
             YP.shape = <<lr.n_obs, lr.n_outcome>>)

\* lines 79-82
Estimate ==
    LET XLPS == XLPS_of(lr.XLP)
        B == B_of(lr.XLP, lr.YP, XLPS)
    IN  Step("lr_estimate", "lr_residuals", <<>>,
             [XLPS |-> XLPS, B |-> B],
             /\ XLPS.shape = <<lr.n_loop_covar, 1>>
             /\ B.shape = <<lr.n_loop_covar, lr.n_outcome>>)

\* lines 85-88
Residuals ==
    LET YR == YR_of(lr.YP, lr.XLP, lr.B)
        RSS == RSS_of(YR)
    IN  Step("lr_residuals", "lr_statistics", <<>>,
             [YR |-> YR, RSS |-> RSS],
             /\ YR.shape = <<lr.n_obs, lr.n_loop_covar, lr.n_outcome>>
             /\ RSS.shape = <<lr.n_loop_covar, lr.n_outcome>>)

\* lines 90-96
Statistics ==
    LET T == T_of(lr.B, lr.RSS, lr.dof, lr.XLPS)
        P == P_of(T, lr.dof)
    IN  Step("lr_statistics", "lr_return", <<"t.sf">>,
             [T |-> T, P |-> P],
             /\ T.shape = <<lr.n_loop_covar, lr.n_outcome>>
             /\ P.shape = <<lr.n_loop_covar, lr.n_outcome>>)

\* line 13-17
LinearRegressionResult(beta, t_value, p_value) ==
    [beta |-> beta, t_value |-> t_value, p_value |-> p_value]

\* line 98: back to the caller, gwas_linear_regression (line 190) or the user
ReturnResult ==
    /\ pc = "lr_return"
    /\ LET res == LinearRegressionResult(lr.B, lr.T, lr.P)
       IN  IF args.fn = "gwas_linear_regression"
           THEN /\ gw' = gw @@ [res |-> res]
                /\ pc' = "gwas_dataset"
                /\ UNCHANGED outcome
           ELSE /\ outcome' = Return(res)
                /\ pc' = "done"
                /\ UNCHANGED gw
    /\ UNCHANGED <<ds, args, lr, trace, prev>>

LinearRegressionSteps ==
    \/ CheckRank
    \/ CheckDof
    \/ ProjectXL
    \/ ProjectY
    \/ Estimate
    \/ Residuals
    \/ Statistics
    \/ ReturnResult

Next ==
    \/ \E covariates \in CovariateLists, dosage \in {"dosage", "None"},
          trait \in {"trait", "trait_1d"}, add_intercept \in BOOLEAN :
          CallGwas(covariates, dosage, trait, add_intercept)
    \/ GwasLoopCovariates
    \/ GwasCoreCovariates
    \/ GwasRegress
    \/ GwasDataset
    \/ \E xl \in XLChoices, xc \in XCChoices, y \in YChoices :
          CallLinearRegression(xl, xc, y)
    \/ LinearRegressionSteps

Spec == Init /\ [][Next]_vars

\* direct calls of linear_regression on the datasets for the arithmetic
NextNum ==
    \/ \E xl \in XLChoices, xc \in XCChoices, y \in YChoices :
          CallLinearRegression(xl, xc, y)
    \/ LinearRegressionSteps

SpecNum == InitNum /\ [][NextNum]_vars

(***************************************************************************)
(* What the properties below read off a state.                             *)
(***************************************************************************)
IsGwas == "fn" \in DOMAIN args /\ args.fn = "gwas_linear_regression"

IsDirect == "fn" \in DOMAIN args /\ args.fn = "linear_regression"

InLinearRegression == "XL" \in DOMAIN lr

AllRankTwo == Len(lr.XL.shape) = 2 /\ Len(lr.XC.shape) = 2 /\ Len(lr.Y.shape) = 2

\* M, N, P, O of the arguments of the linear_regression call in progress
ArgM == lr.Y.shape[1]
ArgN == lr.XL.shape[2]
ArgP == lr.XC.shape[2]
ArgO == lr.Y.shape[2]

SameRows == lr.XL.shape[1] = ArgM /\ lr.XC.shape[1] = ArgM

Raises(err) == outcome.kind = "raise" /\ outcome.error = err

LinearRegressionErrors == {ErrTwoDimensional, ErrDof, ErrAssertion, ErrIndex}

\* the result linear_regression handed back, once it has
HasResult == (IsDirect /\ outcome.kind = "return") \/ "res" \in DOMAIN gw

Result == IF IsDirect THEN outcome.value ELSE gw.res

LstsqCalls(tr) == SelectSeq(tr, LAMBDA e : e \in {"lstsq(XC, XL)", "lstsq(XC, Y)"})

\* of the dataset a gwas call reads
Samples == ds["trait"].shape[1]
Variants == ds["dosage"].shape[1]
CoreColumns(a) == Len(a.covariates) + (IF a.add_intercept THEN 1 ELSE 0)

(***************************************************************************)
(* C1: for every dataset with an (N, M) dosage, 1-d covariates and a 2-d   *)
(* (M, O) trait with M - P - 1 >= 1, gwas_linear_regression returns        *)
(* without error a dataset of exactly variant/beta, variant/t_value and    *)
(* variant/p_value, each labelled with the one axis "variants" of length   *)
(* N, the rank of each array matching its dimension names.  (Stated for a  *)
(* non-empty covariate list.)                                              *)
(***************************************************************************)
C1_GwasReturnsVariantsDataset ==
    (/\ IsGwas
     /\ pc = "done"
     /\ args.dosage = "dosage"
     /\ args.trait = "trait"
     /\ args.covariates # <<>>
     /\ Samples - CoreColumns(args) - 1 >= 1)
    => /\ outcome.kind = "return"
       /\ DOMAIN outcome.value = {"variant/beta", "variant/t_value", "variant/p_value"}
       /\ \A n \in DOMAIN outcome.value :
              /\ outcome.value[n].dims = <<"variants">>
              /\ outcome.value[n].data.shape = <<Variants>>

(***************************************************************************)
(* C2: shape law.  For XL (M, N), XC (M, P), Y (M, O) with M - P - 1 >= 1  *)
(* linear_regression raises nothing, every local has the asserted shape    *)
(* (XLP (M, N), YP (M, O), XLPS (N, 1), YR (M, N, O), RSS (N, O)), and     *)
(* beta, t_value and p_value all have shape (N, O).                        *)
(***************************************************************************)
ExpectedShape(name) ==
    CASE name = "XLP" -> <<ArgM, ArgN>>
      [] name = "YP" -> <<ArgM, ArgO>>
      [] name = "XLPS" -> <<ArgN, 1>>
      [] name = "YR" -> <<ArgM, ArgN, ArgO>>
      [] name \in {"B", "RSS", "T", "P"} -> <<ArgN, ArgO>>

C2_ShapeLaw ==
    (InLinearRegression /\ AllRankTwo /\ SameRows /\ ArgM - ArgP - 1 >= 1)
    => /\ ~(outcome.kind = "raise" /\ outcome.error \in LinearRegressionErrors)
       /\ \A name \in DOMAIN lr \cap {"XLP", "YP", "XLPS", "B", "YR", "RSS", "T", "P"} :
              lr[name].shape = ExpectedShape(name)
       /\ pc \in {"gwas_dataset", "done"} =>
              /\ HasResult
              /\ Result.beta.shape = <<ArgN, ArgO>>
              /\ Result.t_value.shape = <<ArgN, ArgO>>
              /\ Result.p_value.shape = <<ArgN, ArgO>>

C2_Witness ==
    /\ IsDirect
    /\ pc = "done"
    /\ outcome.kind = "return"
    /\ ArgN = 2
    /\ ArgO = 1
    /\ ArgP = 2
    /\ outcome.value.p_value.shape = <<2, 1>>

(***************************************************************************)
(* C3: rank validation is fail-fast.  Whenever one of XL, XC, Y is not     *)
(* 2-dimensional, linear_regression ends with the 'All arguments must be   *)
(* two dimensional' failure: no other error comes first, no shape is read, *)
(* no dof computed, no projection made and nothing returned, also when the *)
(* shapes would give dof < 1.                                              *)
(***************************************************************************)
C3_RankFailFast ==
    (InLinearRegression /\ ~AllRankTwo /\ pc # "lr_rank")
    => /\ pc = "done"
       /\ outcome = Raise(ErrTwoDimensional, None)
       /\ DOMAIN lr = {"XL", "XC", "Y"}
       /\ trace = <<>>
       /\ "res" \notin DOMAIN gw

\* XL of rank one with an XC (M, P) and Y (M, O) whose dof is below one
C3_Witness ==
    /\ InLinearRegression
    /\ pc = "done"
    /\ Raises(ErrTwoDimensional)
    /\ Len(lr.XL.shape) = 1
    /\ Len(lr.XC.shape) = 2
    /\ Len(lr.Y.shape) = 2
    /\ lr.Y.shape[1] - lr.XC.shape[2] - 1 < 1

(***************************************************************************)
(* C4: for rank-2 inputs linear_regression raises the degrees-of-freedom   *)
(* failure if and only if M - P - 1 < 1; the failure reports M and P and   *)
(* comes before any projection; when accepted, dof = M - P - 1 is the one  *)
(* value in every pair's t-statistic (T^2 * RSS = B^2 * dof * XLPS) and    *)
(* p-value.                                                                *)
(***************************************************************************)
C4_DofRejection ==
    (InLinearRegression /\ AllRankTwo /\ pc \notin {"lr_rank", "lr_dof"})
    => IF ArgM - ArgP - 1 < 1
       THEN /\ pc = "done"
            /\ outcome = Raise(ErrDof, [N |-> ArgM, C |-> ArgP])
            /\ DOMAIN lr = {"XL", "XC", "Y"}
            /\ trace = <<>>
       ELSE /\ ~Raises(ErrDof)
            /\ lr.dof = ArgM - ArgP - 1
            /\ "P" \in DOMAIN lr =>
                  \A i \in Idx(<<ArgN, ArgO>>) :
                      /\ lr.P.data[i] # pNaN => lr.P.data[i].dof = ArgM - ArgP - 1
                      /\ tIsFinite(lr.T.data[i]) =>
                             Mul(lr.T.data[i][2], lr.RSS.data[i]) =
                                 Mul(Mul(Sq(lr.B.data[i]), Int2V(ArgM - ArgP - 1)),
                                     lr.XLPS.data[<<i[1], 1>>])

\* the smallest rejected case, M = P + 1, with M and P reported
C4_Witness ==
    /\ InLinearRegression
    /\ pc = "done"
    /\ Raises(ErrDof)
    /\ ArgM = ArgP + 1
    /\ outcome.info = [N |-> ArgM, C |-> ArgP]

(***************************************************************************)
(* C5: _get_core_covariates raises the missing-covariates failure exactly  *)
(* when the list is empty and add_intercept is false; in every other case  *)
(* it yields the (M, k + 1) matrix of a ones column and the k covariates   *)
(* (add_intercept) or the (M, k) matrix of the covariates, the empty list  *)
(* with add_intercept giving the (M, 1) all-ones matrix.                   *)
(***************************************************************************)
C5_CoreCovariates ==
    (IsGwas /\ pc \notin {"gwas_loop", "gwas_core"})
    => IF args.covariates = <<>> /\ ~args.add_intercept
       THEN pc = "done" /\ outcome = Raise(ErrNoCovariates, None)
       ELSE /\ "Z" \in DOMAIN gw
            /\ gw.Z.shape = <<Samples, CoreColumns(args)>>
            /\ \A i \in Idx(<<Samples, CoreColumns(args)>>) :
                   gw.Z.data[i] =
                       IF args.add_intercept
                       THEN (IF i[2] = 1 THEN One
                             ELSE ds[args.covariates[i[2] - 1]].data[<<i[1]>>])
                       ELSE ds[args.covariates[i[2]]].data[<<i[1]>>]

(***************************************************************************)
(* C6: intercept equivalence.  gwas_linear_regression with add_intercept   *)
(* and covariates C ends as it does without add_intercept and with the     *)
(* covariates "ones" followed by C: the same result or the same failure,   *)
(* and the same core matrix passed to linear_regression.                   *)
(***************************************************************************)
Counterparts(a, b) ==
    /\ a.add_intercept
    /\ ~b.add_intercept
    /\ b.covariates = <<"ones">> \o a.covariates
    /\ a.dosage = b.dosage
    /\ a.trait = b.trait

CorePassed(g) == IF "Z" \in DOMAIN g THEN g.Z ELSE None

C6_InterceptEquivalence ==
    (/\ IsGwas
     /\ pc = "done"
     /\ args.dosage = "dosage"
     /\ args.trait = "trait"
     /\ "args" \in DOMAIN prev
     /\ Counterparts(prev.args, args) \/ Counterparts(args, prev.args))
    => /\ outcome = prev.outcome
       /\ CorePassed(gw) = CorePassed(prev.gw)

RECURSIVE SumInt(_, _)
SumInt(f, k) == IF k = 0 THEN 0 ELSE SumInt(f, k - 1) + f[k]

\* the integers the dataset holds for variant v and for column o of the trait
DosageOf(v) == [m \in 1..Samples |-> ds["dosage"].data[<<v, m>>][1]]
TraitOf(o) == [m \in 1..Samples |-> ds["trait"].data[<<m, o>>][1]]

SlopeNum(x, y) ==
    Samples * SumInt([m \in 1..Samples |-> x[m] * y[m]], Samples)
        - SumInt(x, Samples) * SumInt(y, Samples)

SlopeDen(x) ==
    Samples * SumInt([m \in 1..Samples |-> x[m] * x[m]], Samples)
        - SumInt(x, Samples) * SumInt(x, Samples)

InterceptOnly == args.XC = [kind |-> "columns", covariates |-> <<"ones">>]

Returned == IsDirect /\ pc = "done" /\ outcome.kind = "return"

C7_KnownAnswerSlope ==
    (Returned /\ InterceptOnly /\ args.Y = "trait" /\ Len(args.XL.cols) = 1)
    => LET x == DosageOf(args.XL.cols[1])
       IN  SlopeDen(x) # 0 =>
               \A o \in 1..ds["trait"].shape[2] :
                   outcome.value.beta.data[<<1, o>>] =
                       Norm(SlopeNum(x, TraitOf(o)), SlopeDen(x))

\* a slope that is a proper fraction, on a single column y
C7_Witness ==
    /\ Returned
    /\ InterceptOnly
    /\ Len(args.XL.cols) = 1
    /\ ds["trait"].shape[2] = 1
    /\ SlopeDen(DosageOf(args.XL.cols[1])) # 0
    /\ outcome.value.beta.data[<<1, 1>>][2] > 1

(***************************************************************************)
(* C8: independence under concatenation.  Regressing columns of XL alone   *)
(* (same XC and Y) gives each of them the beta, t_value and p_value it has *)
(* in the joint regression: the rows of the joint result for XL1 are the   *)
(* result of XL1 alone, and those for XL2 the result of XL2 alone.         *)
(***************************************************************************)
\* rows i of result r and j of result q agree in every outcome
SameRow(r, i, q, j) ==
    \A o \in 1..r.beta.shape[2] :
        /\ r.beta.data[<<i, o>>] = q.beta.data[<<j, o>>]
        /\ r.t_value.data[<<i, o>>] = q.t_value.data[<<j, o>>]
        /\ r.p_value.data[<<i, o>>] = q.p_value.data[<<j, o>>]

HasJoint == "args" \in DOMAIN prev

C8_ConcatenationIndependence ==
    (Returned /\ HasJoint)
    => /\ prev.outcome.kind = "return"
       /\ prev.args.XC = args.XC /\ prev.args.Y = args.Y
       /\ outcome.value.beta.shape = <<Len(args.XL.cols), prev.outcome.value.beta.shape[2]>>
       /\ \A i \in DOMAIN args.XL.cols : \A j \in DOMAIN prev.args.XL.cols :
              args.XL.cols[i] = prev.args.XL.cols[j] =>
                  SameRow(outcome.value, i, prev.outcome.value, j)

\* the second column of a joint regression of two, alone, with a finite
\* non-zero t-statistic
C8_Witness ==
    /\ Returned
    /\ HasJoint
    /\ prev.args.XL.cols = <<1, 2>>
    /\ args.XL.cols = <<2>>
    /\ tIsFinite(outcome.value.t_value.data[<<1, 1>>])
    /\ outcome.value.t_value.data[<<1, 1>>][1] # 0
    /\ tIsFinite(prev.outcome.value.t_value.data[<<1, 1>>])
    /\ prev.outcome.value.t_value.data[<<1, 1>>][1] # 0

(***************************************************************************)
(* C9: a loop covariate n with XLPS[n] = 0 raises nothing.  The call       *)
(* returns; every pair (n, o) has a non-finite t_value and a NaN p_value;  *)
(* and every pair of a non-degenerate column has the beta, t_value and     *)
(* p_value it has when the degenerate columns are left out of XL.          *)
(***************************************************************************)
DegenerateIn(frame, n) == frame.XLPS.data[<<n, 1>>] = Zero

C9_DegenerateStaysLocal ==
    /\ ("XLPS" \in DOMAIN lr /\ \E n \in 1..ArgN : DegenerateIn(lr, n))
       => /\ outcome.kind # "raise"
          /\ pc = "done" => outcome.kind = "return"
          /\ "P" \in DOMAIN lr =>
                 \A n \in 1..ArgN : \A o \in 1..ArgO :
                     DegenerateIn(lr, n) =>
                         /\ ~tIsFinite(lr.T.data[<<n, o>>])
                         /\ lr.P.data[<<n, o>>] = pNaN
          /\ Returned =>
                 \A n \in 1..ArgN : \A o \in 1..ArgO :
                     DegenerateIn(lr, n) =>
                         /\ ~tIsFinite(outcome.value.t_value.data[<<n, o>>])
                         /\ outcome.value.p_value.data[<<n, o>>] = pNaN
    /\ (Returned /\ HasJoint)
       => \A i \in DOMAIN args.XL.cols : \A j \in DOMAIN prev.args.XL.cols :
              (/\ args.XL.cols[i] = prev.args.XL.cols[j]
               /\ ~DegenerateIn(prev.lr, j)
               /\ \A k \in DOMAIN prev.args.XL.cols :
                      prev.args.XL.cols[k] \in Range(args.XL.cols) <=> ~DegenerateIn(prev.lr, k))
              => SameRow(outcome.value, i, prev.outcome.value, j)

\* the joint regression had a degenerate first column beside a second with a
\* finite non-zero t-statistic, which was then regressed alone
C9_Witness ==
    /\ Returned
    /\ HasJoint
    /\ prev.args.XL.cols = <<1, 2>>
    /\ args.XL.cols = <<2>>
    /\ DegenerateIn(prev.lr, 1)
    /\ ~DegenerateIn(prev.lr, 2)
    /\ prev.outcome.value.p_value.data[<<1, 1>>] = pNaN
    /\ tIsFinite(prev.outcome.value.t_value.data[<<2, 1>>])
    /\ prev.outcome.value.t_value.data[<<2, 1>>][1] # 0

=============================================================================
